---- MODULE Spec2Model ----
(***************************************************************************)
(* The spaced-repetition core of FlashCase: the SM-2 calculator            *)
(* (app/services/srs.py) and the two study endpoints                       *)
(* (app/routers/study.py) over the card and study_log tables.              *)
(*                                                                         *)
(* Time is counted in ticks, TicksPerDay ticks to a day.  Ease factors are *)
(* counted in hundredths (2.5 is 250): every value the code produces from  *)
(* a hundredth is a hundredth again, up to the representation error of a   *)
(* binary float, and that error only shows where round() meets an exact    *)
(* half, which is modelled as a choice between the two neighbours.         *)
(*                                                                         *)
(* review_card reads the latest row of the pair in one statement and       *)
(* inserts the new row in a later one, with nothing in the code (no lock,  *)
(* no version check, a plain Session) that keeps another server process    *)
(* from running in between: it is two steps, the read and the commit, and  *)
(* the calls between the two are the bag reqs.  get_study_session writes   *)
(* nothing and is one step.  Two rows of a pair may carry the same         *)
(* reviewed_at; which of them ORDER BY reviewed_at DESC puts first is the  *)
(* database's choice, so LatestLog is a set.  Likewise the order in which  *)
(* the cards of a deck are read.                                           *)
(***************************************************************************)
EXTENDS Integers, Sequences, FiniteSets, Bags, TLC

\* ---------------------------------------------------------------- bounds
MaxLog == 2
MaxClock == 3
TicksPerDay == 2
MaxRun == 3

\* --------------------------------------------------------- program constants
EaseFloor == 130
DefaultEase == 250
DefaultLimit == 20

Users == {1, 2}
Decks == {1, 2}
Workers == {1, 2}
\* card ids a request may name; no card table below holds card 3
CardIdInputs == {1, 2, 3}
\* The card table belongs to the card service and no study endpoint writes it:
\* a behaviour keeps the table it starts with, two cards in one deck or one
\* card in each of two decks.
CardTables ==
    {{[id |-> 1, deck_id |-> 1], [id |-> 2, deck_id |-> 1]},
     {[id |-> 1, deck_id |-> 1], [id |-> 2, deck_id |-> 2]}}
QualityInputs == {-1, 0, 3, 6}
LimitInputs == {-1, 0, 1, DefaultLimit}

None == [id |-> 0]

VARIABLES
    cards,      \* the card table: a set of rows [id, deck_id]
    log,        \* the study_log table: rows in insertion order, id = position
    basis,      \* history: per row, what the call that wrote it had read
    clock,      \* datetime.utcnow(), in ticks
    reqs,       \* the review_card calls in flight (read done, commit to come): a bag
    resp,       \* the last response sent
    sm2_state,  \* the (repetitions, ease_factor, interval) a run of calculate_sm2 starts from
    sm2_run,    \* the calls of calculate_sm2 made on it, each fed the previous result
    due_run     \* the calls of calculate_due_date made on its own

vars == <<cards, log, basis, clock, reqs, resp, sm2_state, sm2_run, due_run>>

\* ------------------------------------------------------------ calculate_sm2

\* the ease factor left alone by a failed recall
EaseDelta_SuccessOnly(quality) ==
    IF quality < 3 THEN 0 ELSE 10 - (5 - quality) * (8 + (5 - quality) * 2)

\* 0.1 - (5 - q) * (0.08 + (5 - q) * 0.02), in hundredths
EaseDelta(quality) == 10 - (5 - quality) * (8 + (5 - quality) * 2)

\* int(round(x)) for x = x100 / 100: the nearest integer, and at an exact
\* half either neighbour (round-half-even on a float carrying its error)
Round(x100) ==
    LET fl == x100 \div 100
        rem == x100 % 100
    IN  IF rem > 50 THEN {fl + 1}
        ELSE IF rem < 50 THEN {fl}
        ELSE {fl, fl + 1}

\* the update with no floor at all
NewEaseFactor_Unfloored(quality, ease_factor) == ease_factor + EaseDelta(quality)

\* the floor applied to the result only, not to the ease factor given
NewEaseFactor_NoInputFloor(quality, ease_factor) ==
    LET updated == ease_factor + EaseDelta(quality)
    IN  IF updated < EaseFloor THEN EaseFloor ELSE updated

\* the update with no floor on the way out
NewEaseFactor_NoFloor(quality, ease_factor) ==
    LET ef == IF ease_factor < EaseFloor THEN EaseFloor ELSE ease_factor
    IN  ef + EaseDelta(quality)

\* lines 54-63: the floor on the way in, the SM-2 update, the floor on the way out
NewEaseFactor(quality, ease_factor) ==
    LET ef == IF ease_factor < EaseFloor THEN EaseFloor ELSE ease_factor
        new_ease_factor == ef + EaseDelta(quality)
    IN  IF new_ease_factor < EaseFloor THEN EaseFloor ELSE new_ease_factor

\* an incorrect response that keeps the interval it was given
FailedRecall_KeepInterval(new_ease_factor, interval) ==
    [error |-> "none", repetitions |-> 0,
     ease_factor |-> new_ease_factor, interval |-> interval]

\* lines 66-69: an incorrect response
FailedRecall(new_ease_factor, interval) ==
    [error |-> "none", repetitions |-> 0,
     ease_factor |-> new_ease_factor, interval |-> 1]

\* the product cut off instead of rounded
NewIntervals_Truncated(new_repetitions, interval, new_ease_factor) ==
    IF new_repetitions = 1 THEN {1}
    ELSE IF new_repetitions = 2 THEN {6}
    ELSE {(interval * new_ease_factor) \div 100}

\* the second repetition multiplied like the later ones
NewIntervals_NoSecondStep(new_repetitions, interval, new_ease_factor) ==
    IF new_repetitions = 1 THEN {1}
    ELSE Round(interval * new_ease_factor)

\* lines 74-83: the intervals a correct response may get
NewIntervals(new_repetitions, interval, new_ease_factor) ==
    IF new_repetitions = 1 THEN {1}
    ELSE IF new_repetitions = 2 THEN {6}
    ELSE Round(interval * new_ease_factor)

calculate_sm2(quality, repetitions, ease_factor, interval) ==
    IF ~(0 <= quality /\ quality <= 5)
    THEN {[error |-> "ValueError"]}
    ELSE
      LET new_ease_factor == NewEaseFactor(quality, ease_factor)
      IN  IF quality < 3
          THEN {FailedRecall(new_ease_factor, interval)}
          ELSE
            LET new_repetitions == repetitions + 1
            IN  {[error |-> "none", repetitions |-> new_repetitions,
                  ease_factor |-> new_ease_factor, interval |-> new_interval] :
                    new_interval \in
                        NewIntervals(new_repetitions, interval, new_ease_factor)}

\* an interval of 0 taken for one day
calculate_due_date_AtLeastOneDay(interval, base_date) ==
    base_date + (IF interval = 0 THEN 1 ELSE interval) * TicksPerDay

\* base_date + timedelta(days=interval)
calculate_due_date(interval, base_date) == base_date + interval * TicksPerDay

\* ------------------------------------------------------------- the tables

CardRow(card_id) == {c \in cards : c.id = card_id}

\* the rows of any card of the user taken for the rows of the pair
PairRows_AnyCard(l, user_id, card_id) ==
    {k \in 1..Len(l) : l[k].user_id = user_id}

PairRows(l, user_id, card_id) ==
    {k \in 1..Len(l) : l[k].user_id = user_id /\ l[k].card_id = card_id}

\* the oldest row of the pair taken for the latest
LatestLog_Oldest(l, user_id, card_id) ==
    LET rows == PairRows(l, user_id, card_id)
    IN  IF rows = {} THEN {None}
        ELSE {l[k] : k \in {j \in rows :
                        \A i \in rows : l[j].reviewed_at <= l[i].reviewed_at}}

\* select ... where card_id, user_id order by reviewed_at desc, .first():
\* a row of the pair with the greatest reviewed_at (any of them when several
\* rows share it), None when the pair has no row
LatestLog(l, user_id, card_id) ==
    LET rows == PairRows(l, user_id, card_id)
    IN  IF rows = {} THEN {None}
        ELSE {l[k] : k \in {j \in rows :
                        \A i \in rows : l[i].reviewed_at <= l[j].reviewed_at}}

\* ------------------------------------------------------------------ Init

NoResp == [op |-> "none"]

InitTables ==
    /\ cards \in CardTables
    /\ log = <<>>
    /\ basis = <<>>
    /\ clock = 0
    /\ reqs = EmptyBag
    /\ resp = NoResp

NoSM2 ==
    /\ sm2_state = None
    /\ sm2_run = <<>>
    /\ due_run = <<>>

Init == InitTables /\ NoSM2

tables == <<cards, log, basis, clock, reqs, resp>>
srsvars == <<sm2_state, sm2_run, due_run>>

\* ---------------------------------------------------------- the response

\* A handler leaves its response in resp and the server sends it before the
\* next handler answers.
Idle == resp = NoResp

respond ==
    /\ ~Idle
    /\ resp' = NoResp
    /\ UNCHANGED <<cards, log, basis, clock, reqs, srsvars>>

\* ------------------------------------------------------------- the clock

Tick ==
    /\ Idle
    /\ clock < MaxClock
    /\ clock' = clock + 1
    /\ UNCHANGED <<cards, log, basis, reqs, resp, srsvars>>


\* ------------------------------------------------------------ review_card

\* HTTPException(status_code, ...), kept with the request it answers
ReviewError(status, card_id, user_id, quality) ==
    [op |-> "review_card", status |-> status, card_id |-> card_id,
     user_id |-> user_id, quality |-> quality]

\* the card looked up before the quality is validated
Refusal_CardFirst(card_id, quality) ==
    IF CardRow(card_id) = {} THEN 404
    ELSE IF ~(0 <= quality /\ quality <= 5) THEN 400
    ELSE 0

\* the card never looked up
Refusal_NoCardCheck(card_id, quality) ==
    IF ~(0 <= quality /\ quality <= 5) THEN 400 ELSE 0

\* lines 151-161: the status the request is refused with, 0 when it is not
Refusal(card_id, quality) ==
    IF ~(0 <= quality /\ quality <= 5) THEN 400
    ELSE IF CardRow(card_id) = {} THEN 404
    ELSE 0

\* a review refused with 409 while the latest row of the pair is not due
review_card_read_DueOnly(card_id, user_id, quality) ==
    /\ Idle
    /\ IF Refusal(card_id, quality) # 0
       THEN /\ resp' = ReviewError(Refusal(card_id, quality), card_id, user_id, quality)
            /\ UNCHANGED reqs
       ELSE IF \A row \in LatestLog(log, user_id, card_id) :
                  row.id # 0 /\ row.due_date > clock
       THEN /\ resp' = ReviewError(409, card_id, user_id, quality)
            /\ UNCHANGED reqs
       ELSE /\ BagCardinality(reqs) < Cardinality(Workers)
            /\ Len(log) + BagCardinality(reqs) < MaxLog
            /\ \E previous_log \in {row \in LatestLog(log, user_id, card_id) :
                                      row.id = 0 \/ row.due_date <= clock} :
                 LET current_repetitions ==
                        IF previous_log.id # 0 THEN previous_log.repetitions ELSE 0
                     current_ease_factor ==
                        IF previous_log.id # 0 THEN previous_log.ease_factor ELSE DefaultEase
                     current_interval ==
                        IF previous_log.id # 0 THEN previous_log.interval ELSE 0
                 IN  \E new \in calculate_sm2(quality, current_repetitions,
                                              current_ease_factor, current_interval) :
                       reqs' = reqs (+) SetToBag({
                          [card_id |-> card_id, user_id |-> user_id,
                           quality |-> quality,
                           previous_log |-> previous_log.id, seen |-> Len(log),
                           new_repetitions |-> new.repetitions,
                           new_ease_factor |-> new.ease_factor,
                           new_interval |-> new.interval,
                           next_due_date |-> calculate_due_date(new.interval, clock)]})
            /\ UNCHANGED resp
    /\ UNCHANGED <<cards, log, basis, clock, srsvars>>

\* lines 151-192: validate, look the card up, read the latest row, compute.
\* A refused request ends here; an accepted one is in flight until it commits.
review_card_read(card_id, user_id, quality) ==
    /\ Idle
    /\ IF Refusal(card_id, quality) # 0
       THEN /\ resp' = ReviewError(Refusal(card_id, quality), card_id, user_id, quality)
            /\ UNCHANGED reqs
       ELSE /\ BagCardinality(reqs) < Cardinality(Workers)
            /\ Len(log) + BagCardinality(reqs) < MaxLog
            /\ \E previous_log \in LatestLog(log, user_id, card_id) :
                 LET current_repetitions ==
                        IF previous_log.id # 0 THEN previous_log.repetitions ELSE 0
                     current_ease_factor ==
                        IF previous_log.id # 0 THEN previous_log.ease_factor ELSE DefaultEase
                     current_interval ==
                        IF previous_log.id # 0 THEN previous_log.interval ELSE 0
                 IN  \E new \in calculate_sm2(quality, current_repetitions,
                                              current_ease_factor, current_interval) :
                       reqs' = reqs (+) SetToBag({
                          [card_id |-> card_id, user_id |-> user_id,
                           quality |-> quality,
                           previous_log |-> previous_log.id, seen |-> Len(log),
                           new_repetitions |-> new.repetitions,
                           new_ease_factor |-> new.ease_factor,
                           new_interval |-> new.interval,
                           next_due_date |-> calculate_due_date(new.interval, clock)]})
            /\ UNCHANGED resp
    /\ UNCHANGED <<cards, log, basis, clock, srsvars>>

\* lines 196-207: the row a call in flight writes at the time now
NewStudyLog(r, now) ==
    [id |-> Len(log) + 1, user_id |-> r.user_id, card_id |-> r.card_id,
     reviewed_at |-> now, ease_factor |-> r.new_ease_factor,
     interval |-> r.new_interval, repetitions |-> r.new_repetitions,
     last_rating |-> r.quality, due_date |-> r.next_due_date,
     next_review |-> r.next_due_date, created_at |-> now]

\* the row of the pair updated in place when it has one
review_card_commit_Upsert(r) ==
    /\ Idle
    /\ BagIn(r, reqs)
    /\ LET now == clock
           rows == PairRows(log, r.user_id, r.card_id)
           at == IF rows = {} THEN Len(log) + 1 ELSE CHOOSE k \in rows : TRUE
           new_study_log ==
              [id |-> at, user_id |-> r.user_id, card_id |-> r.card_id,
               reviewed_at |-> now, ease_factor |-> r.new_ease_factor,
               interval |-> r.new_interval, repetitions |-> r.new_repetitions,
               last_rating |-> r.quality, due_date |-> r.next_due_date,
               next_review |-> r.next_due_date, created_at |-> now]
       IN  /\ log' = IF rows = {} THEN Append(log, new_study_log)
                     ELSE [log EXCEPT ![at] = new_study_log]
           /\ basis' = IF rows = {}
                       THEN Append(basis, [previous_log |-> r.previous_log, seen |-> r.seen])
                       ELSE basis
           /\ resp' = [op |-> "review_card", status |-> 200, card_id |-> r.card_id,
                       user_id |-> r.user_id, quality |-> r.quality,
                       new_ease_factor |-> r.new_ease_factor,
                       new_interval |-> r.new_interval,
                       new_repetitions |-> r.new_repetitions,
                       next_due_date |-> r.next_due_date]
    /\ reqs' = reqs (-) SetToBag({r})
    /\ UNCHANGED <<cards, clock, srsvars>>

\* the due date answered computed anew from the time of the commit
review_card_commit_AnswersAnew(r) ==
    /\ Idle
    /\ BagIn(r, reqs)
    /\ LET now == clock
       IN  /\ log' = Append(log, NewStudyLog(r, now))
           /\ basis' = Append(basis, [previous_log |-> r.previous_log, seen |-> r.seen])
           /\ resp' = [op |-> "review_card", status |-> 200, card_id |-> r.card_id,
                       user_id |-> r.user_id, quality |-> r.quality,
                       new_ease_factor |-> r.new_ease_factor,
                       new_interval |-> r.new_interval,
                       new_repetitions |-> r.new_repetitions,
                       next_due_date |-> calculate_due_date(r.new_interval, now)]
    /\ reqs' = reqs (-) SetToBag({r})
    /\ UNCHANGED <<cards, clock, srsvars>>

\* lines 194-220: take the time, insert the row, commit, answer
review_card_commit(r) ==
    /\ Idle
    /\ BagIn(r, reqs)
    /\ LET now == clock
           new_study_log ==
              [id |-> Len(log) + 1, user_id |-> r.user_id, card_id |-> r.card_id,
               reviewed_at |-> now, ease_factor |-> r.new_ease_factor,
               interval |-> r.new_interval, repetitions |-> r.new_repetitions,
               last_rating |-> r.quality, due_date |-> r.next_due_date,
               next_review |-> r.next_due_date, created_at |-> now]
       IN  /\ log' = Append(log, new_study_log)
           /\ basis' = Append(basis, [previous_log |-> r.previous_log, seen |-> r.seen])
           /\ resp' = [op |-> "review_card", status |-> 200, card_id |-> r.card_id,
                       user_id |-> r.user_id, quality |-> r.quality, new_ease_factor |-> r.new_ease_factor,
                       new_interval |-> r.new_interval,
                       new_repetitions |-> r.new_repetitions,
                       next_due_date |-> r.next_due_date]
    /\ reqs' = reqs (-) SetToBag({r})
    /\ UNCHANGED <<cards, clock, srsvars>>

\* lines 209-210: session.commit() raises (the database is locked, the disk
\* is full): the session is closed by get_session with the insert rolled
\* back, and the exception is answered with 500
review_card_commit_fails(r) ==
    /\ Idle
    /\ BagIn(r, reqs)
    /\ resp' = ReviewError(500, r.card_id, r.user_id, r.quality)
    /\ reqs' = reqs (-) SetToBag({r})
    /\ UNCHANGED <<cards, log, basis, clock, srsvars>>

\* line 211: session.refresh(new_study_log) raises after the commit went
\* through: the row is in the table, and the exception is answered with 500
review_card_refresh_fails(r) ==
    /\ Idle
    /\ BagIn(r, reqs)
    /\ log' = Append(log, NewStudyLog(r, clock))
    /\ basis' = Append(basis, [previous_log |-> r.previous_log, seen |-> r.seen])
    /\ resp' = ReviewError(500, r.card_id, r.user_id, r.quality)
    /\ reqs' = reqs (-) SetToBag({r})
    /\ UNCHANGED <<cards, clock, srsvars>>

\* ------------------------------------------------------ get_study_session

\* the orders in which a select without ORDER BY may return the rows of S
Orders(S) ==
    {s \in [1..Cardinality(S) -> S] : \A i, j \in DOMAIN s : i # j => s[i] # s[j]}

\* a new card given the interval of a first review
CardWithStudyInfo_NewInterval(card, study_log, now) ==
    IF study_log.id = 0
    THEN [id |-> card.id, deck_id |-> card.deck_id, ease_factor |-> DefaultEase,
          interval |-> 1, repetitions |-> 0, due_date |-> now]
    ELSE [id |-> card.id, deck_id |-> card.deck_id,
          ease_factor |-> study_log.ease_factor, interval |-> study_log.interval,
          repetitions |-> study_log.repetitions, due_date |-> study_log.due_date]

\* lines 95-120: the study information of a card that is due
CardWithStudyInfo(card, study_log, now) ==
    IF study_log.id = 0
    THEN [id |-> card.id, deck_id |-> card.deck_id, ease_factor |-> DefaultEase,
          interval |-> 0, repetitions |-> 0, due_date |-> now]
    ELSE [id |-> card.id, deck_id |-> card.deck_id,
          ease_factor |-> study_log.ease_factor, interval |-> study_log.interval,
          repetitions |-> study_log.repetitions, due_date |-> study_log.due_date]

\* every card taken as due
IsDue_Always(study_log, now) == TRUE

\* lines 95 and 108: never studied, or due by now
IsDue(study_log, now) == study_log.id = 0 \/ study_log.due_date <= now

\* the loop of lines 85-120 over the cards in the order read; pick[c] is the
\* row the query for card c returned
RECURSIVE DueCards(_, _, _)
DueCards(order, pick, now) ==
    IF order = <<>> THEN <<>>
    ELSE LET card == Head(order)
             study_log == pick[card.id]
             rest == DueCards(Tail(order), pick, now)
         IN  IF IsDue(study_log, now)
             THEN <<CardWithStudyInfo(card, study_log, now)>> \o rest
             ELSE rest

\* list.sort(key=due_date): stable, ascending
RECURSIVE InsertByDue(_, _)
InsertByDue(sorted, x) ==
    IF sorted = <<>> THEN <<x>>
    ELSE IF Head(sorted).due_date <= x.due_date
         THEN <<Head(sorted)>> \o InsertByDue(Tail(sorted), x)
         ELSE <<x>> \o sorted

RECURSIVE SortByDue(_)
SortByDue(s) ==
    IF s = <<>> THEN <<>>
    ELSE InsertByDue(SortByDue(SubSeq(s, 1, Len(s) - 1)), s[Len(s)])

\* s[-limit:], the end of the list kept
Slice_Tail(s, limit) ==
    IF limit > 0 /\ limit < Len(s) THEN SubSeq(s, Len(s) - limit + 1, Len(s))
    ELSE IF limit > 0 THEN s
    ELSE <<>>

\* s[:limit]
Slice(s, limit) ==
    IF limit >= 0
    THEN SubSeq(s, 1, IF limit < Len(s) THEN limit ELSE Len(s))
    ELSE SubSeq(s, 1, IF Len(s) + limit > 0 THEN Len(s) + limit ELSE 0)

DeckCards(deck_id) == {c \in cards : c.deck_id = deck_id}

\* the session that writes a first row for every new card it returns
get_study_session_Touch(deck_id, user_id, limit) ==
    /\ Idle
    /\ LET now == clock
           ids == {c.id : c \in DeckCards(deck_id)}
       IN  \E order \in Orders(DeckCards(deck_id)) :
           \E pick \in [ids -> {None} \cup {log[k] : k \in 1..Len(log)}] :
             /\ \A c \in ids : pick[c] \in LatestLog(log, user_id, c)
             /\ resp' = [op |-> "get_study_session", status |-> 200,
                         deck_id |-> deck_id, user_id |-> user_id,
                         limit |-> limit, now |-> now,
                         body |-> Slice(SortByDue(DueCards(order, pick, now)), limit)]
             /\ log' = IF Len(log) < MaxLog /\ \E c \in ids : pick[c] = None
                       THEN Append(log,
                               [id |-> Len(log) + 1, user_id |-> user_id,
                                card_id |-> CHOOSE c \in ids : pick[c] = None,
                                reviewed_at |-> now, ease_factor |-> DefaultEase,
                                interval |-> 0, repetitions |-> 0, last_rating |-> 0,
                                due_date |-> now, next_review |-> now,
                                created_at |-> now])
                       ELSE log
             /\ basis' = IF Len(log') > Len(log)
                         THEN Append(basis, [previous_log |-> 0, seen |-> Len(log)])
                         ELSE basis
    /\ UNCHANGED <<cards, clock, reqs, srsvars>>

get_study_session(deck_id, user_id, limit) ==
    /\ Idle
    /\ LET now == clock
           ids == {c.id : c \in DeckCards(deck_id)}
       IN  \E order \in Orders(DeckCards(deck_id)) :
           \E pick \in [ids -> {None} \cup {log[k] : k \in 1..Len(log)}] :
             /\ \A c \in ids : pick[c] \in LatestLog(log, user_id, c)
             /\ resp' = [op |-> "get_study_session", status |-> 200,
                         deck_id |-> deck_id, user_id |-> user_id,
                         limit |-> limit, now |-> now,
                         body |-> Slice(SortByDue(DueCards(order, pick, now)), limit)]
    /\ UNCHANGED <<cards, log, basis, clock, reqs, srsvars>>

\* ----------------------------------------------------------- the service

Next ==
    \/ Tick
    \/ respond
    \/ \E card_id \in CardIdInputs, user_id \in Users, quality \in QualityInputs :
          review_card_read(card_id, user_id, quality)
    \/ \E r \in BagToSet(reqs) : review_card_commit(r)
    \/ \E r \in BagToSet(reqs) : review_card_commit_fails(r)
    \/ \E r \in BagToSet(reqs) : review_card_refresh_fails(r)
    \/ \E deck_id \in Decks, user_id \in Users, limit \in LimitInputs :
          get_study_session(deck_id, user_id, limit)

Spec == Init /\ [][Next]_vars

\* ------------------------------------------------- the requests, as sent

\* the user a request's bearer token stands for; NoToken when the request
\* carries no Authorization header or an invalid one
NoToken == 0

\* requests without a valid token, and with the token of user 1
TokenInputs == {NoToken, 1}

\* a request that leaves out the user_id the route declares
NoUserId == 0
UserIdInputs == {NoUserId} \cup Users

\* the answer of the framework to a request that lacks a declared parameter
Unprocessable(op) == [op |-> op, status |-> 422]

\* GET /study/session/{deck_id}: user_id is a required query parameter; the
\* route declares no dependency on the caller, so the token is not looked at
study_session_request(token, deck_id, user_id, limit) ==
    IF user_id = NoUserId
    THEN /\ Idle
         /\ resp' = Unprocessable("get_study_session")
         /\ UNCHANGED <<cards, log, basis, clock, reqs, srsvars>>
    ELSE get_study_session(deck_id, user_id, limit)

\* POST /study/review/{card_id}: user_id is a required field of the body;
\* the route declares no dependency on the caller either
review_request(token, card_id, user_id, quality) ==
    IF user_id = NoUserId
    THEN /\ Idle
         /\ resp' = Unprocessable("review_card")
         /\ UNCHANGED <<cards, log, basis, clock, reqs, srsvars>>
    ELSE review_card_read(card_id, user_id, quality)

NextHTTP ==
    \/ Tick
    \/ respond
    \/ \E token \in TokenInputs, card_id \in CardIdInputs,
          user_id \in UserIdInputs, quality \in QualityInputs :
          review_request(token, card_id, user_id, quality)
    \/ \E r \in BagToSet(reqs) : review_card_commit(r)
    \/ \E r \in BagToSet(reqs) : review_card_commit_fails(r)
    \/ \E r \in BagToSet(reqs) : review_card_refresh_fails(r)
    \/ \E token \in TokenInputs, deck_id \in Decks,
          user_id \in UserIdInputs, limit \in LimitInputs :
          study_session_request(token, deck_id, user_id, limit)

SpecHTTP == Init /\ [][NextHTTP]_vars

\* ------------------------------------------- calculate_sm2 on its own

RepetitionInputs == {0, 1, 2, 5}
EaseInputs == {100, 130, 140, 230, 250, 260}
IntervalInputs == {0, 1, 5, 6, 30}
AnyQuality == {-1, 0, 1, 2, 3, 4, 5, 6}

InitSM2 ==
    /\ cards = {}
    /\ log = <<>>
    /\ basis = <<>>
    /\ clock = 0
    /\ reqs = EmptyBag
    /\ resp = NoResp
    /\ sm2_state \in [repetitions : RepetitionInputs, ease_factor : EaseInputs,
                      interval : IntervalInputs]
    /\ sm2_run = <<>>
    /\ due_run = <<>>

\* the parameters the next call is given: the last result, as a caller that
\* reviews one card again and again passes them on
SM2Current ==
    LET ok == {k \in 1..Len(sm2_run) : sm2_run[k].ret.error = "none"}
    IN  IF ok = {} THEN sm2_state
        ELSE LET last == CHOOSE k \in ok : \A j \in ok : j <= k
             IN  [repetitions |-> sm2_run[last].ret.repetitions,
                  ease_factor |-> sm2_run[last].ret.ease_factor,
                  interval |-> sm2_run[last].ret.interval]

sm2_call(quality) ==
    /\ Len(sm2_run) < MaxRun
    /\ \E ret \in calculate_sm2(quality, SM2Current.repetitions,
                                SM2Current.ease_factor, SM2Current.interval) :
         sm2_run' = Append(sm2_run,
                           [quality |-> quality, args |-> SM2Current, ret |-> ret])
    /\ UNCHANGED <<tables, sm2_state, due_run>>

NextSM2 == \E quality \in AnyQuality : sm2_call(quality)

SpecSM2 == InitSM2 /\ [][NextSM2]_vars

\* ---------------------------------------- calculate_due_date on its own

MaxDueRun == 2
DueIntervalInputs == {0, 1, 10}

\* base_date=None, the default
NoBaseDate == -1
BaseDateInputs == {NoBaseDate} \cup 0..MaxClock

InitDue ==
    /\ cards = {}
    /\ log = <<>>
    /\ basis = <<>>
    /\ clock = 0
    /\ reqs = EmptyBag
    /\ resp = NoResp
    /\ sm2_state = None
    /\ sm2_run = <<>>
    /\ due_run = <<>>

\* lines 99-102: the base is the time of the call when none is given
due_call(interval, base_date) ==
    /\ Len(due_run) < MaxDueRun
    /\ LET base == IF base_date = NoBaseDate THEN clock ELSE base_date
       IN  due_run' = Append(due_run,
                             [interval |-> interval, base_date |-> base_date,
                              now |-> clock,
                              ret |-> calculate_due_date(interval, base)])
    /\ UNCHANGED <<tables, sm2_state, sm2_run>>

NextDue ==
    \/ Tick
    \/ \E interval \in DueIntervalInputs, base_date \in BaseDateInputs :
          due_call(interval, base_date)

SpecDue == InitDue /\ [][NextDue]_vars

\* =================================================================== claims

IsSession == resp.op = "get_study_session"
IsReview == resp.op = "review_card"

BodyIds == {resp.body[i].id : i \in 1..Len(resp.body)}

NeverReviewed(user_id, card_id) == PairRows(log, user_id, card_id) = {}

SM2Of(row) ==
    [error |-> "none", repetitions |-> row.repetitions,
     ease_factor |-> row.ease_factor, interval |-> row.interval]

\* C1: two review_card calls on one (user, card) that both read the same
\* latest row (the later-committed one had read before the earlier one
\* committed) leave two rows, and the second row is calculate_sm2 of the
\* first row's values, not of the row both had read.
C1_ConcurrentReviewsSerialized ==
    \A j, k \in 1..Len(log) :
        ( /\ j < k
          /\ log[j].user_id = log[k].user_id
          /\ log[j].card_id = log[k].card_id
          /\ basis[k].seen < j
          /\ basis[j].previous_log = basis[k].previous_log )
        => SM2Of(log[k]) \in calculate_sm2(log[k].last_rating, log[j].repetitions,
                                           log[j].ease_factor, log[j].interval)

\* calculate_sm2 returns no ease factor below the floor, whatever it is given
SM2NeverBelowFloor ==
    \A quality \in 0..5, repetitions \in RepetitionInputs,
       ease_factor \in EaseInputs, interval \in IntervalInputs :
        \A ret \in calculate_sm2(quality, repetitions, ease_factor, interval) :
            ret.ease_factor >= EaseFloor

\* C2: every row of the study log, and every result a call in flight is
\* about to write, has ease_factor >= 1.3; calculate_sm2 returns no ease
\* factor below 1.3 for any input.
C2_EaseFactorFloor ==
    /\ \A k \in 1..Len(log) : log[k].ease_factor >= EaseFloor
    /\ \A r \in BagToSet(reqs) : r.new_ease_factor >= EaseFloor
    /\ SM2NeverBelowFloor

\* a row written at the floor whose update, unfloored, would have gone below
C2_Witness ==
    \E k \in 1..Len(log) :
        /\ log[k].ease_factor = EaseFloor
        /\ basis[k].previous_log # 0
        /\ log[basis[k].previous_log].ease_factor + EaseDelta(log[k].last_rating)
              < EaseFloor

ReviewSucceeds == Idle /\ resp'.op = "review_card" /\ resp'.status = 200

\* C3: a review_card call that succeeds appends exactly one row; every step
\* of the service keeps every row written before it, unchanged and in place,
\* and adds at most one row.
C3_AppendOnly ==
    [][ /\ Len(log') >= Len(log)
        /\ Len(log') <= Len(log) + 1
        /\ SubSeq(log', 1, Len(log)) = log
        /\ ReviewSucceeds => Len(log') = Len(log) + 1 ]_vars

\* a second review of a pair has succeeded, its first row still there
C3_Witness ==
    /\ IsReview /\ resp.status = 200
    /\ Len(log) = 2
    /\ log[1].user_id = log[2].user_id
    /\ log[1].card_id = log[2].card_id

\* C4: a call of calculate_sm2 with quality < 3 returns repetitions 0 and
\* interval 1, whatever repetitions, ease factor and interval it is given.
C4_FailedRecallResets ==
    \A k \in 1..Len(sm2_run) :
        sm2_run[k].quality \in {0, 1, 2}
        => /\ sm2_run[k].ret.repetitions = 0
           /\ sm2_run[k].ret.interval = 1

\* a failed recall of a card that stood at 5 repetitions and 30 days
C4_Witness ==
    \E k \in 1..Len(sm2_run) :
        /\ sm2_run[k].quality \in {0, 1, 2}
        /\ sm2_run[k].args.repetitions = 5
        /\ sm2_run[k].args.interval = 30
        /\ sm2_run[k].ret.repetitions = 0

SM2Ok(call) == call.ret.error = "none"

\* the reviews of the run: the calls that were not rejected
SM2Reviews == SelectSeq(sm2_run, SM2Ok)

\* the failed reviews among the first k
SM2Failures(v, k) == {j \in 1..k : v[j].quality < 3}

\* the number of successes in a row that end with review k
SM2Streak(v, k) ==
    IF SM2Failures(v, k) = {} THEN k
    ELSE k - (CHOOSE j \in SM2Failures(v, k) : \A i \in SM2Failures(v, k) : i <= j)

\* n is x100 / 100 rounded to a nearest integer
IsRounded(n, x100) == 100 * n - x100 \in -50..50

\* C5: in a run of successes (quality >= 3) that starts from a card with no
\* repetitions or right after a failed review, the first success yields
\* interval 1, the second 6, each later one the rounded product of the
\* interval it was given and the ease factor it returns; each success
\* returns one repetition more than it was given.
C5_SuccessProgression ==
    LET v == SM2Reviews
    IN  \A k \in 1..Len(v) :
          v[k].quality >= 3
          => /\ v[k].ret.repetitions = v[k].args.repetitions + 1
             /\ (SM2Failures(v, k) # {} \/ sm2_state.repetitions = 0)
                => LET s == SM2Streak(v, k)
                   IN  /\ v[k].ret.repetitions = s
                       /\ s = 1 => v[k].ret.interval = 1
                       /\ s = 2 => v[k].ret.interval = 6
                       /\ s >= 3 => IsRounded(v[k].ret.interval,
                                       v[k].args.interval * v[k].ret.ease_factor)

\* a third success in a row, from a card with no repetitions
C5_Witness ==
    /\ sm2_state.repetitions = 0
    /\ Len(SM2Reviews) = 3
    /\ \A k \in 1..3 : SM2Reviews[k].quality >= 3
    /\ SM2Reviews[3].ret.repetitions = 3
    /\ SM2Reviews[3].ret.interval > 6

\* calculate_sm2 raises ValueError on a quality outside 0..5
SM2RejectsInvalidQuality ==
    \A quality \in AnyQuality \ (0..5), repetitions \in RepetitionInputs,
       ease_factor \in EaseInputs, interval \in IntervalInputs :
        calculate_sm2(quality, repetitions, ease_factor, interval)
            = {[error |-> "ValueError"]}

\* C6: calculate_sm2 rejects a quality outside 0..5; review_card answers such
\* a quality with 400 whether or not the card exists, writes nothing, leaves
\* no call in flight, and no call with such a quality is ever in flight.
C6_InvalidQualityRejectedFirst ==
    [][ /\ SM2RejectsInvalidQuality
        /\ (Idle /\ resp'.op = "review_card" /\ resp'.quality \notin 0..5)
           => (resp'.status = 400 /\ log' = log /\ reqs' = reqs)
        /\ \A r \in BagToSet(reqs') : r.quality \in 0..5 ]_vars

\* a quality outside 0..5 for a card that does not exist, answered with 400
C6_Witness ==
    /\ IsReview /\ resp.status = 400
    /\ resp.quality \notin 0..5
    /\ CardRow(resp.card_id) = {}

\* C7 as stated: review_card for a card that does not exist answers 404 and
\* writes nothing, and no call for such a card is in flight.
C7_MissingCardIsNotFound ==
    [][ /\ (Idle /\ resp'.op = "review_card" /\ CardRow(resp'.card_id) = {})
           => (resp'.status = 404 /\ log' = log /\ reqs' = reqs)
        /\ \A r \in BagToSet(reqs') : CardRow(r.card_id) # {} ]_vars

\* C7 amended: review_card with a quality in 0..5 for a card that does not
\* exist answers 404 and writes nothing; with a quality outside 0..5 it
\* writes nothing either; no call for such a card is in flight.
C7_MissingCardValidQuality ==
    [][ /\ (Idle /\ resp'.op = "review_card" /\ CardRow(resp'.card_id) = {})
           => /\ log' = log /\ reqs' = reqs
              /\ resp'.quality \in 0..5 => resp'.status = 404
        /\ \A r \in BagToSet(reqs') : CardRow(r.card_id) # {} ]_vars

\* a 404 for a missing card, answered when the log already holds rows
C7_Witness ==
    /\ IsReview /\ resp.status = 404
    /\ CardRow(resp.card_id) = {}
    /\ Len(log) > 0

\* what the session returns for a card the user never reviewed
NewCardInfo(card, now) ==
    [id |-> card.id, deck_id |-> card.deck_id, ease_factor |-> DefaultEase,
     interval |-> 0, repetitions |-> 0, due_date |-> now]

InBody(info) == \E i \in 1..Len(resp.body) : resp.body[i] = info

\* C8 as stated: with limit >= 1, every card of the deck that the user never
\* reviewed is in the returned list, as (2.5, 0, 0, query time).
C8_NewCardsAlwaysReturned ==
    (IsSession /\ resp.limit >= 1)
    => \A card \in DeckCards(resp.deck_id) :
          NeverReviewed(resp.user_id, card.id) => InBody(NewCardInfo(card, resp.now))

\* C8 amended: with limit >= 1, every card of the deck that the user never
\* reviewed is in the returned list, as (2.5, 0, 0, query time), unless the
\* list is full (it holds limit cards).
C8_NewCardsReturnedUnlessFull ==
    (IsSession /\ resp.limit >= 1)
    => \A card \in DeckCards(resp.deck_id) :
          NeverReviewed(resp.user_id, card.id)
          => (InBody(NewCardInfo(card, resp.now)) \/ Len(resp.body) = resp.limit)

\* a card the user never reviewed, reviewed by somebody else, is returned
C8_Witness ==
    /\ IsSession /\ resp.limit >= 1
    /\ \E card \in DeckCards(resp.deck_id) :
          /\ NeverReviewed(resp.user_id, card.id)
          /\ \E k \in 1..Len(log) : log[k].card_id = card.id
          /\ InBody(NewCardInfo(card, resp.now))

\* C9: no card of the returned list has a due date after the query time, the
\* due date being that of a latest row of the pair, or the query time for a
\* card the user never reviewed.
C9_NothingBeforeItIsDue ==
    IsSession
    => \A i \in 1..Len(resp.body) :
          /\ resp.body[i].due_date <= resp.now
          /\ IF NeverReviewed(resp.user_id, resp.body[i].id)
             THEN resp.body[i].due_date = resp.now
             ELSE \E row \in LatestLog(log, resp.user_id, resp.body[i].id) :
                     resp.body[i].due_date = row.due_date

\* a card of the deck is left out because its latest row is due later, and
\* another card is returned, with no limit in the way
C9_Witness ==
    /\ IsSession /\ resp.limit = DefaultLimit
    /\ resp.body # <<>>
    /\ \E card \in DeckCards(resp.deck_id) :
          /\ ~NeverReviewed(resp.user_id, card.id)
          /\ \A row \in LatestLog(log, resp.user_id, card.id) : row.due_date > resp.now
          /\ card.id \notin BodyIds

\* C10: for every limit the endpoint accepts, the returned list has at most
\* limit cards and is sorted non-decreasing by due date.
C10_AtMostLimitSorted ==
    IsSession
    => /\ Len(resp.body) <= resp.limit
       /\ \A i, j \in 1..Len(resp.body) :
             i < j => resp.body[i].due_date <= resp.body[j].due_date

\* C11: in the returned list, cards with the same due date stand in ascending
\* order of card id, whatever order the cards of the deck were read in.
C11_TiesByCardId ==
    IsSession
    => \A i, j \in 1..Len(resp.body) :
          (i < j /\ resp.body[i].due_date = resp.body[j].due_date)
          => resp.body[i].id < resp.body[j].id

\* C12: every row of the study log has due_date = reviewed_at + interval
\* days: the due date and the review time are taken from the same instant.
C12_DueDateFromReviewTime ==
    \A k \in 1..Len(log) :
        log[k].due_date = log[k].reviewed_at + log[k].interval * TicksPerDay

\* the rows of the pair of row k, up to and including row k
RowsUpTo(k) ==
    {j \in 1..k : log[j].user_id = log[k].user_id /\ log[j].card_id = log[k].card_id}

\* the number of reviews with quality >= 3 of the pair of row k that end, in
\* a row, with row k
RowStreak(k) ==
    LET failed == {j \in RowsUpTo(k) : log[j].last_rating < 3}
    IN  Cardinality({j \in RowsUpTo(k) : \A f \in failed : f < j})

\* C13: the repetitions of every row of the study log is the number of
\* reviews with quality >= 3 of its pair that end, in a row, with that row
\* (0 when the row's own rating is below 3).
C13_RepetitionsCountStreak ==
    \A k \in 1..Len(log) : log[k].repetitions = RowStreak(k)

\* the calls that this step put in flight
Accepted == {r \in BagToSet(reqs') : CopiesIn(r, reqs') > CopiesIn(r, reqs)}

\* C14: a request to the study-session endpoint or to the review endpoint
\* that carries no valid token is answered with 401; the review request
\* writes no row and puts no call in flight that would write one.
C14_UnauthenticatedRejected ==
    [][ /\ \A deck_id \in Decks, user_id \in UserIdInputs, limit \in LimitInputs :
              study_session_request(NoToken, deck_id, user_id, limit)
              => resp'.status = 401
        /\ \A card_id \in CardIdInputs, user_id \in UserIdInputs,
              quality \in QualityInputs :
              review_request(NoToken, card_id, user_id, quality)
              => (resp'.op = "review_card" /\ resp'.status = 401
                  /\ log' = log /\ Accepted = {}) ]_vars

\* C15: a review request with a valid token, a quality in 0..5 and a card
\* that exists is accepted, also when its body holds the quality only, and
\* the call it puts in flight, hence the row the commit writes, carries the
\* user of the token as user_id.
C15_RecordedUnderCaller ==
    [][ /\ \A token \in TokenInputs \ {NoToken}, card_id \in CardIdInputs,
              user_id \in UserIdInputs, quality \in QualityInputs :
              ( /\ review_request(token, card_id, user_id, quality)
                /\ Refusal(card_id, quality) = 0 )
              => (Accepted # {} /\ \A r \in Accepted : r.user_id = token)
        /\ \A r \in BagToSet(reqs) :
              review_card_commit(r) => log'[Len(log')].user_id = r.user_id ]_vars

\* the rows of the pair of row k written before it
PriorRows(k) == RowsUpTo(k) \ {k}

\* what a call that runs alone reads for the pair of row k right before
\* that row: a row of the pair with the greatest reviewed_at, or the defaults
IsolatedBasis(k) ==
    IF PriorRows(k) = {}
    THEN {[repetitions |-> 0, ease_factor |-> DefaultEase, interval |-> 0]}
    ELSE {[repetitions |-> log[j].repetitions, ease_factor |-> log[j].ease_factor,
           interval |-> log[j].interval] :
            j \in {j \in PriorRows(k) :
                     \A i \in PriorRows(k) : log[i].reviewed_at <= log[j].reviewed_at}}

\* a worker is free and the log has room for one more row
HasRoom ==
    /\ BagCardinality(reqs) < Cardinality(Workers)
    /\ Len(log) + BagCardinality(reqs) < MaxLog

SessionAnswered == Idle /\ resp'.op = "get_study_session"

\* C17: a call of get_study_session, with any arguments, leaves the study
\* log and the card table as they were, and the calls in flight as well.
C17_SessionChangesNothing ==
    [][ SessionAnswered
        => (log' = log /\ cards' = cards /\ reqs' = reqs /\ basis' = basis) ]_vars

\* a session answered with a card in it, over a log that holds a row and
\* with a call in flight
C17_Witness ==
    /\ IsSession
    /\ resp.body # <<>>
    /\ Len(log) = 1
    /\ BagCardinality(reqs) = 1

\* this step ends a call of review_card with an error
ReviewFails == Idle /\ resp'.op = "review_card" /\ resp'.status # 200

\* C18: a call of review_card that fails, at whatever statement, leaves the
\* study log as it was before the call.
C18_FailureLeavesLogUnchanged ==
    [][ ReviewFails => log' = log ]_vars

\* C19: calculate_due_date(interval, base) returns base + interval days for
\* every interval >= 0 and every base, the time of the call standing in for
\* a base that is not given; with interval 0 it returns the base itself.
C19_DueDateIsBasePlusDays ==
    \A k \in 1..Len(due_run) :
        LET call == due_run[k]
            base == IF call.base_date = NoBaseDate THEN call.now ELSE call.base_date
        IN  /\ call.ret - base = call.interval * TicksPerDay
            /\ call.interval = 0 => call.ret = base

\* a call with interval 0 and a call with interval 10, both on a base given
C19_Witness ==
    /\ Len(due_run) = 2
    /\ due_run[1].interval = 0 /\ due_run[1].base_date = MaxClock
    /\ due_run[1].ret = MaxClock
    /\ due_run[2].interval = 10 /\ due_run[2].base_date = 1
    /\ due_run[2].ret = 1 + 10 * TicksPerDay

\* logs of three rows over two cards, with every order and tie of reviewed_at
LatestLogInputs ==
    [1..3 -> [user_id : {1}, card_id : {1, 2}, reviewed_at : 0..2]]

\* the select of the latest row returns a row of the pair that no row of the
\* pair is later than, and None only when the pair has no row
LatestLogIsGreatest ==
    \A l \in LatestLogInputs, card_id \in {1, 2} :
        LET rows == {k \in 1..3 : l[k].user_id = 1 /\ l[k].card_id = card_id}
        IN  /\ LatestLog(l, 1, card_id) # {}
            /\ \A row \in LatestLog(l, 1, card_id) :
                  IF rows = {} THEN row = None
                  ELSE \E k \in rows :
                          /\ row = l[k]
                          /\ \A j \in rows : l[j].reviewed_at <= l[k].reviewed_at

\* the rows of the pair of row k that were in the log when its call read
SeenRows(k) == {j \in PriorRows(k) : j <= basis[k].seen}

\* C20: every row of the study log holds calculate_sm2 of its quality and of
\* the (repetitions, ease_factor, interval) of the row its call read, a row
\* of its pair with the greatest reviewed_at among those in the log at the
\* read, or of (0, 2.5, 0) when the pair had no row then; its last_rating is
\* the quality submitted, as the answer of the call repeats it.
C20_RowFromLatestRead ==
    /\ LatestLogIsGreatest
    /\ \A k \in 1..Len(log) :
          LET p == basis[k].previous_log
          IN  IF p = 0
              THEN /\ SeenRows(k) = {}
                   /\ SM2Of(log[k]) \in calculate_sm2(log[k].last_rating,
                                                      0, DefaultEase, 0)
              ELSE /\ p \in SeenRows(k)
                   /\ \A j \in SeenRows(k) : log[j].reviewed_at <= log[p].reviewed_at
                   /\ SM2Of(log[k]) \in calculate_sm2(log[k].last_rating,
                                          log[p].repetitions, log[p].ease_factor,
                                          log[p].interval)
    /\ (IsReview /\ resp.status = 200)
       => /\ log[Len(log)].last_rating = resp.quality
          /\ log[Len(log)].repetitions = resp.new_repetitions
          /\ log[Len(log)].ease_factor = resp.new_ease_factor
          /\ log[Len(log)].interval = resp.new_interval

\* a second review of a pair answered, its row computed from the first row:
\* a success after a success, six days
C20_Witness ==
    /\ IsReview /\ resp.status = 200
    /\ Len(log) = 2
    /\ basis[2].previous_log = 1
    /\ log[1].last_rating = 3
    /\ resp.quality = 3
    /\ log[2].interval = 6

\* the update of the ease factor per quality 0..5, in hundredths
UpdateByQuality == <<-80, -54, -32, -14, 0, 10>>

\* the ease factor a call is given, raised to the floor
Floored(ease_factor) == IF ease_factor < EaseFloor THEN EaseFloor ELSE ease_factor

\* the ease factor returned is the one given, raised to the floor, plus the
\* update of the quality, raised to the floor; on failed recalls as well
SM2UpdatesEase(call) ==
    call.ret.ease_factor
        = Floored(Floored(call.args.ease_factor) + UpdateByQuality[call.quality + 1])

\* C21 as stated: every call of calculate_sm2 with quality < 5 returns an
\* ease factor not greater than the one it was given, every call with
\* quality 5 a greater one; the update is +0.10, 0, -0.14, -0.32, -0.54,
\* -0.80 for quality 5..0, floored at 1.3, on failed recalls as well.
C21_EaseNeverRisesBelowFive ==
    \A k \in 1..Len(SM2Reviews) :
        LET call == SM2Reviews[k]
        IN  /\ SM2UpdatesEase(call)
            /\ call.quality < 5 => call.ret.ease_factor <= call.args.ease_factor
            /\ call.quality = 5 => call.ret.ease_factor > call.args.ease_factor

\* C21 amended: the same, the ease factor returned being compared with the
\* one given raised to the floor of 1.3.
C21_EaseNeverRisesAboveFloored ==
    \A k \in 1..Len(SM2Reviews) :
        LET call == SM2Reviews[k]
        IN  /\ SM2UpdatesEase(call)
            /\ call.quality < 5
               => call.ret.ease_factor <= Floored(call.args.ease_factor)
            /\ call.quality = 5
               => call.ret.ease_factor > Floored(call.args.ease_factor)

\* a failed recall that lowers the ease factor, after a call that was given
\* an ease factor below the floor and returned the floor
C21_Witness ==
    /\ Len(SM2Reviews) = 3
    /\ SM2Reviews[1].args.ease_factor < EaseFloor
    /\ SM2Reviews[1].quality = 4
    /\ SM2Reviews[1].ret.ease_factor = EaseFloor
    /\ SM2Reviews[2].quality = 5
    /\ SM2Reviews[3].quality = 2
    /\ SM2Reviews[3].ret.ease_factor < SM2Reviews[3].args.ease_factor

\* calculate_sm2 returns for an ease factor below the floor what it returns
\* for the floor, whatever else it is given
SM2BelowFloorIsFloor ==
    \A quality \in AnyQuality, repetitions \in RepetitionInputs,
       ease_factor \in {e \in EaseInputs \cup {0, 129} : e < EaseFloor},
       interval \in IntervalInputs :
        calculate_sm2(quality, repetitions, ease_factor, interval)
            = calculate_sm2(quality, repetitions, EaseFloor, interval)

\* C22: a call of calculate_sm2 with an ease factor below 1.3 and a quality
\* in 0..5 is not rejected, and returns the (repetitions, ease factor,
\* interval) that the same call with ease factor 1.3 returns.
C22_InputBelowFloorIsFloor ==
    /\ SM2BelowFloorIsFloor
    /\ \A k \in 1..Len(sm2_run) :
          LET call == sm2_run[k]
          IN  (call.args.ease_factor < EaseFloor /\ call.quality \in 0..5)
              => /\ call.ret.error = "none"
                 /\ call.ret \in calculate_sm2(call.quality, call.args.repetitions,
                                               EaseFloor, call.args.interval)
                 /\ call.ret.ease_factor
                       = Floored(EaseFloor + UpdateByQuality[call.quality + 1])

\* a perfect recall on an ease factor below the floor returns 1.4: the
\* floor, then the update
C22_Witness ==
    /\ Len(sm2_run) = 1
    /\ sm2_run[1].args.ease_factor < EaseFloor
    /\ sm2_run[1].quality = 5
    /\ sm2_run[1].ret.ease_factor = EaseFloor + 10

\* C23: the answer of a review_card call that succeeded repeats, field by
\* field, the row the call wrote: repetitions, ease factor, interval and due
\* date, for the card and with the quality of the request.
C23_AnswerRepeatsRow ==
    (IsReview /\ resp.status = 200)
    => LET row == log[Len(log)]
       IN  /\ Len(log) > 0
           /\ resp.new_repetitions = row.repetitions
           /\ resp.new_ease_factor = row.ease_factor
           /\ resp.new_interval = row.interval
           /\ resp.next_due_date = row.due_date
           /\ resp.next_due_date = row.next_review
           /\ resp.card_id = row.card_id
           /\ resp.quality = row.last_rating

\* the answer of a call that committed a tick after it read: the due date
\* answered is the one written, not the time of the commit plus the interval
C23_Witness ==
    /\ IsReview /\ resp.status = 200
    /\ Len(log) > 0
    /\ resp.next_due_date = log[Len(log)].due_date
    /\ resp.next_due_date
          < log[Len(log)].reviewed_at + resp.new_interval * TicksPerDay

\* the row of the pair written last
LastWritten(user_id, card_id) ==
    LET rows == PairRows(log, user_id, card_id)
    IN  CHOOSE k \in rows : \A j \in rows : j <= k

\* C25: the row that review_card and get_study_session read as the latest
\* of a pair is the row of the pair that was written last, also when rows of
\* the pair carry the same reviewed_at.
C25_LatestIsLastWritten ==
    \A user_id \in Users, card \in cards :
        ~NeverReviewed(user_id, card.id)
        => \A row \in LatestLog(log, user_id, card.id) :
              row.id = LastWritten(user_id, card.id)

\* C24: a card whose pair has a row is not in the list a session returns to
\* the user at a query time before the due date of the row written last for
\* the pair, and is in it at every query time from that due date on, unless
\* the list is full.
C24_DueFromLastReview ==
    IsSession
    => \A card \in DeckCards(resp.deck_id) :
          ~NeverReviewed(resp.user_id, card.id)
          => LET row == log[LastWritten(resp.user_id, card.id)]
             IN  /\ row.due_date > resp.now => card.id \notin BodyIds
                 /\ (row.due_date <= resp.now /\ resp.limit >= 1)
                    => (card.id \in BodyIds \/ Len(resp.body) = resp.limit)

\* the interval that goes with the repetitions, as review_card writes them
IntervalFitsRepetitions(s) ==
    /\ s.interval >= 1
    /\ s.repetitions = 0 => s.interval = 1
    /\ s.repetitions = 1 => s.interval = 1
    /\ s.repetitions = 2 => s.interval = 6
    /\ s.repetitions >= 3 => s.interval >= 8

\* the state of a pair with no row
IsDefaultState(s) == s.repetitions = 0 /\ s.ease_factor = DefaultEase /\ s.interval = 0

\* C26: in a run of reviews that starts from the empty log, or from a row
\* whose interval fits its repetitions, every row written has an interval
\* >= 1 and a rating in 0..5, and its interval fits its repetitions: 1 for 0
\* and for 1 repetition, 6 for 2, at least 8 for 3 or more.
C26_IntervalFitsRepetitions ==
    (IsDefaultState(sm2_state) \/ IntervalFitsRepetitions(sm2_state))
    => \A k \in 1..Len(SM2Reviews) :
          /\ SM2Reviews[k].quality \in 0..5
          /\ IntervalFitsRepetitions(SM2Reviews[k].ret)

\* three successes from the empty log, the ease factor falling: 1, 6 and 14
\* days
C26_Witness ==
    /\ IsDefaultState(sm2_state)
    /\ Len(sm2_run) = 3
    /\ \A k \in 1..3 : sm2_run[k].quality = 3
    /\ sm2_run[3].ret.repetitions = 3
    /\ sm2_run[3].ret.interval >= 8
    /\ sm2_run[3].ret.ease_factor < DefaultEase

\* C27: a successful review (quality >= 3) of a pair whose state has 2 or
\* more repetitions and an interval that fits them returns an interval
\* greater than the one it was given, whatever the ease factor.
C27_IntervalGrows ==
    \A k \in 1..Len(SM2Reviews) :
        LET call == SM2Reviews[k]
        IN  ( /\ call.args.repetitions >= 2
              /\ IntervalFitsRepetitions(call.args)
              /\ call.quality >= 3 )
            => call.ret.interval > call.args.interval

\* the interval grows from 6 days with the ease factor at the floor, and
\* grows again
C27_Witness ==
    /\ Len(sm2_run) = 2
    /\ sm2_state.repetitions = 2 /\ sm2_state.interval = 6
    /\ sm2_state.ease_factor = EaseFloor
    /\ \A k \in 1..2 : sm2_run[k].quality = 3 /\ sm2_run[k].ret.ease_factor = EaseFloor
    /\ sm2_run[1].ret.interval = 8
    /\ sm2_run[2].ret.interval > 8

\* the lists get_study_session may return over the log l at the time now
SessionBodies(l, deck_id, user_id, limit, now) ==
    LET ids == {c.id : c \in DeckCards(deck_id)}
    IN  {Slice(SortByDue(DueCards(order, pick, now)), limit) :
            order \in Orders(DeckCards(deck_id)),
            pick \in {p \in [ids -> {None} \cup {l[k] : k \in 1..Len(l)}] :
                        \A c \in ids : p[c] \in LatestLog(l, user_id, c)}}

\* what a list says about a card: its study information, or nothing
InfoIn(body, card_id) == {body[i] : i \in {j \in 1..Len(body) : body[j].id = card_id}}

\* what the lists over l may say about a card
CardInLists(l, deck_id, user_id, limit, now, card_id) ==
    {InfoIn(body, card_id) : body \in SessionBodies(l, deck_id, user_id, limit, now)}

\* this step writes a row
RowWritten == Len(log') = Len(log) + 1

\* the step leaves the latest row of every pair but that of the row written
\* as it was, and the lists of every other user as well
OtherPairsKept ==
    LET row == log'[Len(log')]
    IN  /\ \A user_id \in Users, card \in cards :
              (user_id # row.user_id \/ card.id # row.card_id)
              => LatestLog(log', user_id, card.id) = LatestLog(log, user_id, card.id)
        /\ \A user_id \in Users \ {row.user_id}, deck_id \in Decks, limit \in LimitInputs :
              SessionBodies(log', deck_id, user_id, limit, clock)
                 = SessionBodies(log, deck_id, user_id, limit, clock)

\* C28 as stated: a step of review_card that writes a row for user u and
\* card c leaves the latest row of every other pair as it was, the list of
\* get_study_session for every other user as well, and, for u, what the list
\* says about every card other than c, for every deck and limit.
C28_OtherPairsUntouched ==
    [][ RowWritten
        => LET row == log'[Len(log')]
           IN  /\ OtherPairsKept
               /\ \A card \in cards, limit \in LimitInputs :
                     card.id # row.card_id
                     => CardInLists(log', card.deck_id, row.user_id, limit, clock, card.id)
                          = CardInLists(log, card.deck_id, row.user_id, limit, clock, card.id)
      ]_vars

\* C28 amended: the same, what the list for u says about a card other than
\* c being compared where no limit cuts the list.
C28_OtherPairsUntouchedBeforeLimit ==
    [][ RowWritten
        => LET row == log'[Len(log')]
           IN  /\ OtherPairsKept
               /\ \A card \in cards, limit \in LimitInputs :
                     (card.id # row.card_id
                        /\ limit >= Cardinality(DeckCards(card.deck_id)))
                     => CardInLists(log', card.deck_id, row.user_id, limit, clock, card.id)
                          = CardInLists(log, card.deck_id, row.user_id, limit, clock, card.id)
      ]_vars

\* a review of a card by one user answered, the same card due for the other
\* user from a row of their own
C28_Witness ==
    /\ IsReview /\ resp.status = 200
    /\ Len(log) = 2
    /\ log[1].user_id # log[2].user_id
    /\ log[1].card_id = log[2].card_id
    /\ log[1].due_date <= clock
    /\ log[2].due_date > clock

\* the latest row of the pair, whichever the select returns, is not due yet
NotYetDue(user_id, card_id) ==
    \A row \in LatestLog(log, user_id, card_id) : row.id # 0 /\ row.due_date > clock

\* C29: review_card asks for no due date: a review with a valid quality of
\* a card that exists is accepted while the latest row of the pair is due
\* later; a row whose call read a row that was not due yet holds
\* calculate_sm2 of that row's values, and with a quality >= 3 it has one
\* repetition more and no shorter an interval, a longer one after a success.
C29_ReviewBeforeDue ==
    /\ (Idle /\ HasRoom)
       => \A card \in cards, user_id \in Users :
             NotYetDue(user_id, card.id)
             => ENABLED (review_card_read(card.id, user_id, 3) /\ reqs' # reqs)
    /\ \A k \in 1..Len(log) :
          LET p == basis[k].previous_log
          IN  (p # 0 /\ log[k].reviewed_at < log[p].due_date)
              => /\ SM2Of(log[k]) \in calculate_sm2(log[k].last_rating,
                                        log[p].repetitions, log[p].ease_factor,
                                        log[p].interval)
                 /\ log[k].last_rating >= 3
                    => /\ log[k].repetitions = log[p].repetitions + 1
                       /\ log[k].interval >= log[p].interval
                       /\ log[p].repetitions >= 1 => log[k].interval > log[p].interval

\* a second success written before the first one's due date: 2 repetitions,
\* 6 days
C29_Witness ==
    /\ Len(log) = 2
    /\ basis[2].previous_log = 1
    /\ log[2].reviewed_at < log[1].due_date
    /\ log[1].repetitions = 1
    /\ log[2].repetitions = 2
    /\ log[2].interval = 6
    /\ log[2].due_date > log[1].due_date

\* the due date the list gives a card, from the row read for it
DueDateOf(row, now) == IF row.id = 0 THEN now ELSE row.due_date

\* C30: a card of the deck that is due and is not in the list returned has a
\* due date no earlier than that of every card in the list: the list is the
\* front of the due cards in order of due date, so the cards never reviewed,
\* due at the query time, are the first to be cut.
C30_CutKeepsMostOverdue ==
    IsSession
    => \A card \in DeckCards(resp.deck_id) :
          card.id \notin BodyIds
          => \E row \in LatestLog(log, resp.user_id, card.id) :
                IsDue(row, resp.now)
                => \A i \in 1..Len(resp.body) :
                      resp.body[i].due_date <= DueDateOf(row, resp.now)

\* with limit 1, a card that has been due for a while is returned and a card
\* never reviewed is cut
C30_Witness ==
    /\ IsSession /\ resp.limit = 1
    /\ Len(resp.body) = 1
    /\ resp.body[1].due_date < resp.now
    /\ \E card \in DeckCards(resp.deck_id) :
          /\ NeverReviewed(resp.user_id, card.id)
          /\ card.id \notin BodyIds

====
